---- MODULE Spec2Model ----
(***************************************************************************)
(* The statevector engine of qibo (src/qibo/engines/numpy.py): NumpyEngine *)
(* with zero_state, control_matrix, _einsum_string, _control_order,        *)
(* apply_gate and set_threads, together with the numpy operations they     *)
(* call (reshape, transpose, einsum, concatenate, slicing).                *)
(*                                                                         *)
(* Amplitudes are complex numbers with integer real and imaginary parts,   *)
(* <<re, im>>, so every sum and product of the code is computed exactly.   *)
(* An ndarray is a record [err, shape, data]: data is the C-order (row     *)
(* major) listing of the entries, err names the Python exception that was  *)
(* raised instead of producing the array ("none" when there is none).      *)
(***************************************************************************)
EXTENDS Integers, Sequences, FiniteSets, TLC

(* ---------------------------------------------------------------- bounds *)

\* Largest number of qubits of a state.
MaxQubits == 3

\* Largest size of one circuit execution: qubits times gates applied, so
\* that small systems run long circuits and the largest ones a single gate.
MaxWork == 4

\* Largest number of tensor axes the axis bookkeeping is run on.
MaxAxes == 4
\* The largest thread count passed to set_threads.
MaxThreads == 3

(* ------------------------------------------------------- complex numbers *)

CZero == <<0, 0>>
COne == <<1, 0>>

CAdd(x, y) == <<x[1] + y[1], x[2] + y[2]>>

CMul(x, y) == <<x[1] * y[1] - x[2] * y[2], x[1] * y[2] + x[2] * y[1]>>

RECURSIVE CSum(_)
CSum(terms) ==
    IF terms = <<>> THEN CZero ELSE CAdd(Head(terms), CSum(Tail(terms)))

(* ------------------------------------------------------ numpy: ndarrays *)

NoErr == "none"

Array(shape, data) == [err |-> NoErr, shape |-> shape, data |-> data]

\* The entries of an array as a tuple, each computed once.
Entries(a) == SubSeq(a.data, 1, Len(a.data))

\* raise_error(exception, message): the call ends with the exception.
Raise(exc) == [err |-> exc, shape |-> <<>>, data |-> <<>>]

RECURSIVE Prod(_)
Prod(s) == IF s = <<>> THEN 1 ELSE Head(s) * Prod(Tail(s))

RECURSIVE Pow2(_)
Pow2(k) == IF k <= 0 THEN 1 ELSE 2 * Pow2(k - 1)

\* k * (2,): the shape of a tensor with k axes of size 2.
Twos(k) == [i \in 1..k |-> 2]

NDim(a) == Len(a.shape)

\* a.size
Size(a) == Prod(a.shape)

\* The C-order strides of a shape: entry i is the product of the sizes of
\* the axes after axis i.
Strides(shape) ==
    [i \in 1..Len(shape) |-> Prod(SubSeq(shape, i + 1, Len(shape)))]

\* The multi-index (0-based entries) of flat position idx (0-based).
Unravel(idx, shape, strides) ==
    [i \in 1..Len(shape) |-> (idx \div strides[i]) % shape[i]]

RECURSIVE RavelFrom(_, _, _)
RavelFrom(mi, strides, i) ==
    IF i > Len(strides) THEN 0
    ELSE mi[i] * strides[i] + RavelFrom(mi, strides, i + 1)

\* The flat position (0-based) of multi-index mi.
Ravel(mi, strides) == RavelFrom(mi, strides, 1)

\* np.resize in place of np.reshape: the entries are repeated or cut to fill
\* the new shape, and no size is refused.
Reshape_resize(a, shape) ==
    IF a.err # NoErr THEN a
    ELSE Array(shape, [p \in 1..Prod(shape) |-> a.data[((p - 1) % Len(a.data)) + 1]])

\* np.reshape(a, shape): same entries in the same C order, new shape.
Reshape(a, shape) ==
    IF a.err # NoErr THEN a
    ELSE IF Prod(shape) # Size(a) THEN Raise("ValueError")
    ELSE Array(shape, a.data)

IsPermutation(axes, n) ==
    /\ Len(axes) = n
    /\ \A j \in 0..(n - 1) : \E i \in 1..n : axes[i] = j

\* np.transpose(a, axes): axis i of the result is axis axes[i] of a.
Transpose(a, axes) ==
    IF a.err # NoErr THEN a
    ELSE IF ~IsPermutation(axes, NDim(a)) THEN Raise("ValueError")
    ELSE LET n == NDim(a)
             strides == Strides(a.shape)
             \* inverse[j]: the axis of the result that axis j of a becomes
             inverse == [j \in 1..n |-> CHOOSE i \in 1..n : axes[i] = j - 1]
             from == Entries(a)
             shape == [i \in 1..n |-> a.shape[axes[i] + 1]]
             sr == Strides(shape)
             entry(mi) == from[Ravel([j \in 1..n |-> mi[inverse[j]]], strides) + 1]
         IN Array(shape, [p \in 1..Prod(shape) |-> entry(Unravel(p - 1, shape, sr))])

\* a[-1]: the last entry along the first axis.
Last(a) ==
    IF a.err # NoErr THEN a
    ELSE IF NDim(a) = 0 \/ a.shape[1] = 0 THEN Raise("IndexError")
    ELSE LET rest == Tail(a.shape)
             block == Prod(rest)
         IN Array(rest, [p \in 1..block |-> a.data[Size(a) - block + p]])

\* a[:-1]: everything but the last entry along the first axis.
ButLast(a) ==
    IF a.err # NoErr THEN a
    ELSE IF NDim(a) = 0 THEN Raise("IndexError")
    ELSE LET rest == Tail(a.shape)
             keep == IF a.shape[1] = 0 THEN 0 ELSE a.shape[1] - 1
         IN Array(<<keep>> \o rest, [p \in 1..(keep * Prod(rest)) |-> a.data[p]])

\* a[np.newaxis]: a new first axis of size 1.
NewAxis(a) ==
    IF a.err # NoErr THEN a ELSE Array(<<1>> \o a.shape, a.data)

\* np.concatenate([a, b], axis): a followed by b along the axis (0-based).
Concatenate(a, b, axis) ==
    IF a.err # NoErr THEN a
    ELSE IF b.err # NoErr THEN b
    ELSE IF \/ NDim(a) # NDim(b)
            \/ axis >= NDim(a)
            \/ \E i \in 1..NDim(a) : i # axis + 1 /\ a.shape[i] # b.shape[i]
         THEN Raise("ValueError")
    ELSE LET ax == axis + 1
             sa == Strides(a.shape)
             sb == Strides(b.shape)
             froma == Entries(a)
             fromb == Entries(b)
             entry(mi) ==
                 IF mi[ax] < a.shape[ax] THEN froma[Ravel(mi, sa) + 1]
                 ELSE fromb[Ravel([mi EXCEPT ![ax] = mi[ax] - a.shape[ax]], sb) + 1]
             shape == [a.shape EXCEPT ![ax] = a.shape[ax] + b.shape[ax]]
             sr == Strides(shape)
         IN Array(shape, [p \in 1..Prod(shape) |-> entry(Unravel(p - 1, shape, sr))])

(* -------------------------------------------------------- numpy: einsum *)

Range(s) == {s[i] : i \in 1..Len(s)}

\* Position (1-based) of the first occurrence of x in s; 0 when there is none.
IndexOf(s, x) ==
    IF x \in Range(s)
    THEN CHOOSE i \in 1..Len(s) : s[i] = x /\ \A j \in 1..(i - 1) : s[j] # x
    ELSE 0

RECURSIVE Unique(_)
\* The entries of s in order of first occurrence, each once.
Unique(s) ==
    IF s = <<>> THEN <<>>
    ELSE LET front == Unique(SubSeq(s, 1, Len(s) - 1))
             x == s[Len(s)]
         IN IF x \in Range(front) THEN front ELSE Append(front, x)

\* np.einsum(opstring, A, B) for an explicit two-operand subscript string
\* "<subs of A>,<subs of B>-><subs of the result>", given as the sequence of
\* its characters: every label takes every index of its axis, labels absent
\* from the result are summed over.
Einsum(opstring, A, B) ==
    IF A.err # NoErr THEN A
    ELSE IF B.err # NoErr THEN B
    ELSE LET c == IndexOf(opstring, ",")
             p == IndexOf(opstring, "-")
             subs1 == SubSeq(opstring, 1, c - 1)
             subs2 == SubSeq(opstring, c + 1, p - 1)
             out == SubSeq(opstring, p + 2, Len(opstring))
             dims1(l) == {A.shape[i] : i \in {j \in 1..Len(subs1) : subs1[j] = l}}
             dims2(l) == {B.shape[i] : i \in {j \in 1..Len(subs2) : subs2[j] = l}}
             labels == Range(subs1) \cup Range(subs2)
         IN IF \/ Len(subs1) # NDim(A)
               \/ Len(subs2) # NDim(B)
               \/ \E l \in labels : Cardinality(dims1(l) \cup dims2(l)) # 1
               \/ \E l \in Range(out) : l \notin labels
               \/ Len(Unique(out)) # Len(out)
            THEN Raise("ValueError")
            ELSE LET dim(l) == CHOOSE d \in dims1(l) \cup dims2(l) : TRUE
                     free == SelectSeq(Unique(subs1 \o subs2),
                                       LAMBDA l : l \notin Range(out))
                     fdims == [i \in 1..Len(free) |-> dim(free[i])]
                     fstrides == Strides(fdims)
                     sa == Strides(A.shape)
                     sb == Strides(B.shape)
                     fromA == Entries(A)
                     fromB == Entries(B)
                     \* where the index of a label is read: position i > 0 of
                     \* the result's multi-index, or position -i of the summed one
                     place(l) == IF l \in Range(out) THEN IndexOf(out, l)
                                 ELSE 0 - IndexOf(free, l)
                     place1 == [i \in 1..Len(subs1) |-> place(subs1[i])]
                     place2 == [i \in 1..Len(subs2) |-> place(subs2[i])]
                     val(w, omi, fmi) == IF w > 0 THEN omi[w] ELSE fmi[0 - w]
                     term(omi, fmi) ==
                         CMul(fromA[Ravel([i \in 1..Len(subs1) |->
                                               val(place1[i], omi, fmi)], sa) + 1],
                              fromB[Ravel([i \in 1..Len(subs2) |->
                                               val(place2[i], omi, fmi)], sb) + 1])
                     entry(omi) ==
                         CSum([q \in 1..Prod(fdims) |->
                                  term(omi, Unravel(q - 1, fdims, fstrides))])
                     shape == [i \in 1..Len(out) |-> dim(out[i])]
                     sr == Strides(shape)
                 IN Array(shape,
                          [q \in 1..Prod(shape) |-> entry(Unravel(q - 1, shape, sr))])

(* ------------------------------------------------------------- the gate *)

\* A gate is a record [target_qubits, control_qubits, matrix]: the targets
\* and the controls are sequences of qubit indices (0-based), the matrix is
\* the bare unitary, a two-dimensional ndarray.

\* Gate.qubits: the controls followed by the targets.
qubits(gate) == gate.control_qubits \o gate.target_qubits

\* Gate.is_controlled_by: the gate has control qubits.
is_controlled_by(gate) == Len(gate.control_qubits) > 0

\* Simulator.asmatrix(gate): the gate's bare matrix.
asmatrix(gate) == gate.matrix

\* qibo.config.EINSUM_CHARS
EINSUM_CHARS ==
    << "a", "b", "c", "d", "e", "f", "g", "h", "i", "j", "k", "l", "m",
       "n", "o", "p", "q", "r", "s", "t", "u", "v", "w", "x", "y", "z",
       "A", "B", "C", "D", "E", "F", "G", "H", "I", "J", "K", "L", "M",
       "N", "O", "P", "Q", "R", "S", "T", "U", "V", "W", "X", "Y", "Z" >>

Min(a, b) == IF a < b THEN a ELSE b

\* s[lo:hi] of Python for 0 <= lo, 0 <= hi.
PySlice(s, lo, hi) == SubSeq(s, lo + 1, Min(hi, Len(s)))

(* ------------------------------------------------------------ the engine *)

\* zero_state that sets the last amplitude: state[-1] = 1.
zero_state_last(nqubits) ==
    IF nqubits < 0 THEN Raise("TypeError")
    ELSE LET zeros == [i \in 1..Pow2(nqubits) |-> CZero]
         IN Array(<<Pow2(nqubits)>>, [zeros EXCEPT ![Pow2(nqubits)] = COne])

\* zero_state with an integer power: 2 ** nqubits truncated to a length.
zero_state_integer_power(nqubits) ==
    LET zeros == [i \in 1..Pow2(nqubits) |-> CZero]
    IN Array(<<Pow2(nqubits)>>, [zeros EXCEPT ![1] = COne])

\* NumpyEngine.zero_state(nqubits): 2 ** nqubits is a float below 1 for a
\* negative nqubits, which np.zeros rejects with TypeError.
zero_state(nqubits) ==
    IF nqubits < 0 THEN Raise("TypeError")
    ELSE LET zeros == [i \in 1..Pow2(nqubits) |-> CZero]
         IN Array(<<Pow2(nqubits)>>, [zeros EXCEPT ![1] = COne])

\* np.eye(2)
Eye2 == Array(<<2, 2>>, <<COne, CZero, CZero, COne>>)

\* np.zeros((2, 2))
Zeros22 == Array(<<2, 2>>, <<CZero, CZero, CZero, CZero>>)

\* control_matrix with the two column blocks concatenated in the other order.
control_matrix_swapped(gate) ==
    IF Len(gate.control_qubits) > 1 THEN Raise("NotImplementedError")
    ELSE LET matrix == asmatrix(gate)
         IN IF matrix.shape # <<2, 2>> THEN Raise("ValueError")
            ELSE LET part1 == Concatenate(Eye2, Zeros22, 0)
                     part2 == Concatenate(Zeros22, matrix, 0)
                 IN Concatenate(part2, part1, 1)

\* control_matrix refusing only more than two controls, as its message says.
control_matrix_two_controls(gate) ==
    IF Len(gate.control_qubits) > 2 THEN Raise("NotImplementedError")
    ELSE LET matrix == asmatrix(gate)
         IN IF matrix.shape # <<2, 2>> THEN Raise("ValueError")
            ELSE LET part1 == Concatenate(Eye2, Zeros22, 0)
                     part2 == Concatenate(Zeros22, matrix, 0)
                 IN Concatenate(part1, part2, 1)

\* control_matrix raising the exception of the first check for a bad shape.
control_matrix_shape_unsupported(gate) ==
    IF Len(gate.control_qubits) > 1 THEN Raise("NotImplementedError")
    ELSE LET matrix == asmatrix(gate)
         IN IF matrix.shape # <<2, 2>> THEN Raise("NotImplementedError")
            ELSE LET part1 == Concatenate(Eye2, Zeros22, 0)
                     part2 == Concatenate(Zeros22, matrix, 0)
                 IN Concatenate(part1, part2, 1)

\* NumpyEngine.control_matrix(gate)
control_matrix(gate) ==
    IF Len(gate.control_qubits) > 1 THEN Raise("NotImplementedError")
    ELSE LET matrix == asmatrix(gate)
         IN IF matrix.shape # <<2, 2>> THEN Raise("ValueError")
            ELSE LET part1 == Concatenate(Eye2, Zeros22, 0)
                     part2 == Concatenate(Zeros22, matrix, 0)
                 IN Concatenate(part1, part2, 1)

RECURSIVE EinsumLoopByPosition(_, _, _, _, _)
\* EinsumLoop pairing the i-th leg with axis i instead of axis q: inp[i].
EinsumLoopByPosition(qs, i, inp, trans, out) ==
    IF i >= Len(qs) THEN [trans |-> trans, out |-> out]
    ELSE LET q == qs[i + 1]
             trans1 == Append(trans, inp[i + 1])
         IN EinsumLoopByPosition(qs, i + 1, inp, trans1,
                                 [out EXCEPT ![q + 1] = trans1[i + 1]])

RECURSIVE EinsumLoop(_, _, _, _, _)
\* The loop of _einsum_string from its i-th round (0-based) on.
EinsumLoop(qs, i, inp, trans, out) ==
    IF i >= Len(qs) THEN [trans |-> trans, out |-> out]
    ELSE LET q == qs[i + 1]
             trans1 == Append(trans, inp[q + 1])
         IN EinsumLoop(qs, i + 1, inp, trans1, [out EXCEPT ![q + 1] = trans1[i + 1]])

\* _einsum_string with the matrix legs exchanged: the state's labels first,
\* the new labels second, which contracts with the transposed matrix.
_einsum_string_transposed(gate, nqubits) ==
    LET inp == PySlice(EINSUM_CHARS, 0, nqubits)
        new == PySlice(EINSUM_CHARS, nqubits, nqubits + Len(qubits(gate)))
        olds == [i \in 1..Len(qubits(gate)) |-> inp[qubits(gate)[i] + 1]]
        out == [j \in 1..nqubits |->
                   IF j - 1 \in Range(qubits(gate))
                   THEN new[IndexOf(qubits(gate), j - 1)] ELSE inp[j]]
    IN inp \o <<",">> \o olds \o new \o <<"-", ">">> \o out

\* _einsum_string with the output subscripts of the targets first and the
\* other axes after them, which moves the axes the gate acts on.
_einsum_string_targets_first(gate, nqubits) ==
    LET inp == PySlice(EINSUM_CHARS, 0, nqubits)
        new == PySlice(EINSUM_CHARS, nqubits, nqubits + Len(qubits(gate)))
        olds == [i \in 1..Len(qubits(gate)) |-> inp[qubits(gate)[i] + 1]]
        idle == {a \in 0..(nqubits - 1) : a \notin Range(qubits(gate))}
        rest == [j \in 1..Cardinality(idle) |->
                    inp[(CHOOSE a \in idle : Cardinality({b \in idle : b < a}) = j - 1) + 1]]
    IN inp \o <<",">> \o new \o olds \o <<"-", ">">> \o new \o rest

\* NumpyEngine._einsum_string(gate, nqubits)
_einsum_string(gate, nqubits) ==
    LET inp == PySlice(EINSUM_CHARS, 0, nqubits)
        trans == PySlice(EINSUM_CHARS, nqubits, nqubits + Len(qubits(gate)))
        done == EinsumLoop(qubits(gate), 0, inp, trans, inp)
    IN inp \o <<",">> \o done.trans \o <<"-", ">">> \o done.out

RECURSIVE AppendRangeInclusive(_, _, _)
\* AppendRange that also appends its upper end: range(lo, hi + 1).
AppendRangeInclusive(order, lo, hi) ==
    IF lo > hi THEN order
    ELSE AppendRangeInclusive(Append(order, lo), lo + 1, hi)

RECURSIVE AppendRange(_, _, _)
\* for i in range(lo, hi): order.append(i)
AppendRange(order, lo, hi) ==
    IF lo >= hi THEN order ELSE AppendRange(Append(order, lo), lo + 1, hi)

\* ShiftTargets comparing the target as already shifted, targets[i], with
\* the control instead of the gate's own target.
ShiftTargetsShifted(gate, targets, control) ==
    [i \in 1..Len(targets) |->
        IF targets[i] > control THEN targets[i] - 1 ELSE targets[i]]

\* for i, t in enumerate(gate.target_qubits): if t > control: targets[i] -= 1
ShiftTargets(gate, targets, control) ==
    [i \in 1..Len(targets) |->
        IF gate.target_qubits[i] > control THEN targets[i] - 1 ELSE targets[i]]

RECURSIVE ControlLoop(_, _, _, _, _)
\* The loop of _control_order over the controls from the c-th (1-based) on.
ControlLoop(gate, c, loop_start, order, targets) ==
    IF c > Len(gate.control_qubits)
    THEN [loop_start |-> loop_start, order |-> order, targets |-> targets]
    ELSE LET control == gate.control_qubits[c]
         IN ControlLoop(gate, c + 1, control + 1,
                        AppendRange(order, loop_start, control),
                        ShiftTargets(gate, targets, control))

\* NumpyEngine._control_order(gate, nqubits)
_control_order(gate, nqubits) ==
    LET done == ControlLoop(gate, 1, 0, gate.control_qubits, gate.target_qubits)
    IN [order |-> AppendRange(done.order, done.loop_start, nqubits),
        targets |-> done.targets]

RECURSIVE ReverseLoop(_, _, _)
\* for i, r in enumerate(order): reverse_order[r] = i
ReverseLoop(order, i, reverse_order) ==
    IF i >= Len(order) THEN reverse_order
    ELSE ReverseLoop(order, i + 1, [reverse_order EXCEPT ![order[i + 1] + 1] = i])

\* ReverseOrder with index and value exchanged: reverse_order[i] = r.
ReverseOrderCopied(order) == [i \in 1..Len(order) |-> order[i]]

\* reverse_order of apply_gate: len(order) * [0], then the loop.
ReverseOrder(order) == ReverseLoop(order, 0, [i \in 1..Len(order) |-> 0])

\* apply_gate returning the tensor of the last step, not reshaped.
apply_gate_unflattened(gate, state, nqubits) ==
    LET state1 == Reshape(state, Twos(nqubits))
        opstring == _einsum_string(gate, nqubits)
    IN IF state1.err # NoErr THEN state1
       ELSE IF is_controlled_by(gate)
       THEN LET matrix == Reshape(asmatrix(gate), Twos(2 * Len(gate.target_qubits)))
                ncontrol == Len(gate.control_qubits)
                nactive == nqubits - ncontrol
                order == _control_order(gate, nqubits).order
                state2 == Transpose(state1, order)
                state3 == Reshape(state2, <<Pow2(ncontrol)>> \o Twos(nactive))
                updates == Einsum(opstring, Last(state3), matrix)
                state4 == Concatenate(ButLast(state3), NewAxis(updates), 0)
                state5 == Reshape(state4, Twos(nqubits))
                reverse_order == ReverseOrder(order)
                state6 == Transpose(state5, reverse_order)
            IN IF matrix.err # NoErr THEN matrix
               ELSE IF updates.err # NoErr THEN updates
               ELSE state6
       ELSE LET matrix == Reshape(asmatrix(gate), Twos(2 * Len(qubits(gate))))
                state2 == Einsum(opstring, state1, matrix)
            IN state2


\* NumpyEngine.apply_gate(gate, state, nqubits)
apply_gate(gate, state, nqubits) ==
    LET state1 == Reshape(state, Twos(nqubits))
        opstring == _einsum_string(gate, nqubits)
    IN IF state1.err # NoErr THEN state1
       ELSE IF is_controlled_by(gate)
       THEN LET matrix == Reshape(asmatrix(gate), Twos(2 * Len(gate.target_qubits)))
                ncontrol == Len(gate.control_qubits)
                nactive == nqubits - ncontrol
                order == _control_order(gate, nqubits).order
                state2 == Transpose(state1, order)
                state3 == Reshape(state2, <<Pow2(ncontrol)>> \o Twos(nactive))
                updates == Einsum(opstring, Last(state3), matrix)
                state4 == Concatenate(ButLast(state3), NewAxis(updates), 0)
                state5 == Reshape(state4, Twos(nqubits))
                reverse_order == ReverseOrder(order)
                state6 == Transpose(state5, reverse_order)
            IN IF matrix.err # NoErr THEN matrix
               ELSE IF updates.err # NoErr THEN updates
               ELSE Reshape(state6, <<Pow2(nqubits)>>)
       ELSE LET matrix == Reshape(asmatrix(gate), Twos(2 * Len(qubits(gate))))
                state2 == Einsum(opstring, state1, matrix)
            IN Reshape(state2, <<Pow2(nqubits)>>)

\* apply_gate writing its result into the array it was given.
CallerBufferInPlace(gate, state, nqubits) ==
    LET result == apply_gate(gate, state, nqubits)
    IN IF result.err = NoErr THEN result ELSE state

\* The array the caller passed as state, after the call: apply_gate only
\* rebinds its local name state (np.reshape, np.transpose, np.einsum and
\* np.concatenate return views or new arrays) and never stores into it.
CallerBuffer(gate, state, nqubits) == state

\* set_threads accepting two threads.
set_threads_two(nthreads) == IF nthreads > 2 THEN "ValueError" ELSE NoErr

\* NumpyEngine.set_threads(nthreads)
set_threads(nthreads) == IF nthreads > 1 THEN "ValueError" ELSE NoErr


(* ---------------------------------------------------------------- inputs *)

\* The matrix on k targets whose entry (r, c) is entries[r * 2^k + c + 1].
SquareMatrix(k, entries) == Array(<<Pow2(k), Pow2(k)>>, entries)

\* Pauli X.
PauliX == SquareMatrix(1, <<CZero, COne, COne, CZero>>)

\* The matrix of CNOT on two targets: X on the second when the first is 1.
CNOT4 ==
    SquareMatrix(2, << COne, CZero, CZero, CZero,
                       CZero, COne, CZero, CZero,
                       CZero, CZero, CZero, COne,
                       CZero, CZero, COne, CZero >>)

\* A matrix on k targets whose entries all differ (not unitary, not
\* symmetric): entry (r, c) is (r * 2^k + c + 1) + (r - c) i.
GenMatrix(k) ==
    SquareMatrix(k, [p \in 1..(Pow2(k) * Pow2(k)) |->
                        <<p, ((p - 1) \div Pow2(k)) - ((p - 1) % Pow2(k))>>])

Matrices == {Eye2, PauliX, GenMatrix(1), CNOT4, GenMatrix(2)}

\* Number of targets a matrix with 2^k rows acts on.
TargetCount(matrix) == CHOOSE k \in 0..matrix.shape[1] : Pow2(k) = matrix.shape[1]

Qubits(n) == 0..(n - 1)

\* The sequences of k distinct qubits of an n-qubit system, in any order.
TargetLists(n, k) ==
    {t \in [1..k -> Qubits(n)] : \A i, j \in 1..k : i # j => t[i] # t[j]}

RECURSIVE Ascending(_)
\* The elements of a set of integers as an ascending sequence.
Ascending(S) ==
    IF S = {} THEN <<>>
    ELSE LET m == CHOOSE x \in S : \A y \in S : x <= y
         IN <<m>> \o Ascending(S \ {m})

\* The ascending control lists that avoid the targets.
ControlLists(n, targets) == {Ascending(S) : S \in SUBSET (Qubits(n) \ Range(targets))}

\* The gates on an n-qubit system.
Gates(n) ==
    UNION {UNION {{[target_qubits |-> t, control_qubits |-> c, matrix |-> m] :
                      c \in ControlLists(n, t)} :
                  t \in TargetLists(n, TargetCount(m))} :
           m \in Matrices}

\* The gates whose matrix is not the size of their target list: X declared
\* on two targets, the CNOT matrix declared on one.
MismatchedGates(n) ==
    UNION {UNION {{[target_qubits |-> t, control_qubits |-> c, matrix |-> m] :
                      c \in ControlLists(n, t)} :
                  t \in TargetLists(n, 3 - TargetCount(m))} :
           m \in {PauliX, CNOT4}}

\* Every gate the engine is called with.
AllGates(n) == Gates(n) \cup MismatchedGates(n)

ZeroVector(n) == [i \in 1..Pow2(n) |-> CZero]

\* The computational basis state |x> of n qubits.
BasisState(n, x) == Array(<<Pow2(n)>>, [ZeroVector(n) EXCEPT ![x + 1] = COne])

\* A state of n qubits whose amplitudes all differ: amplitude x is
\* (x + 1) + (x mod 3 - 1) i.
GenState(n) == Array(<<Pow2(n)>>, [i \in 1..Pow2(n) |-> <<i, ((i - 1) % 3) - 1>>])

\* The initial states a caller supplies for n qubits.
InputStates(n) == {BasisState(n, x) : x \in 0..(Pow2(n) - 1)} \cup {GenState(n)}

(* ------------------------------------------------------------- the state *)

VARIABLES
    state,      \* the executor's state vector, a flat ndarray
    nqubits,    \* its number of qubits
    ngates,     \* gates applied to it since it was created
    call,       \* the last call made: operation, arguments, outcome
    circuit,    \* the circuit parameter_shift differentiates
    dbf         \* the DoubleBracketFlow object and the Hamiltonians it refers to

vars == <<state, nqubits, ngates, call, circuit, dbf>>

\* What the engine and its executor never touch.
outside == <<circuit, dbf>>

\* A circuit with no gates.
EmptyCircuit == [parameters |-> <<>>, gates |-> <<>>]

\* No DoubleBracketFlow has been constructed.
NoFlow == [constructed |-> FALSE]

\* The engine is constructed; the executor holds no amplitudes yet.
Init ==
    /\ state = Array(<<0>>, <<>>)
    /\ nqubits = 0
    /\ ngates = 0
    /\ call = [op |-> "__init__", err |-> NoErr]
    /\ circuit = EmptyCircuit
    /\ dbf = NoFlow

\* The executor creates its state with zero_state(n); a failed call leaves
\* what it held.
ZeroState(n) ==
    LET result == zero_state(n)
    IN /\ call' = [op |-> "zero_state", nq |-> n, err |-> result.err,
                   result |-> result]
       /\ IF result.err = NoErr
          THEN state' = result /\ nqubits' = n /\ ngates' = 0
          ELSE UNCHANGED <<state, nqubits, ngates>>
       /\ UNCHANGED outside

\* The executor starts from an initial state supplied by its caller.
LoadState(n, psi) ==
    /\ state' = psi
    /\ nqubits' = n
    /\ ngates' = 0
    /\ call' = [op |-> "initial_state", nq |-> n, err |-> NoErr, result |-> psi]
    /\ UNCHANGED outside

\* state = engine.apply_gate(gate, state, nqubits): an exception ends the
\* execution, the executor's state is not reassigned.
ApplyGate(gate) ==
    /\ call.err = NoErr
    /\ call.op \in {"zero_state", "initial_state", "apply_gate", "set_threads"}
    /\ nqubits * (ngates + 1) <= MaxWork
    /\ LET result == apply_gate(gate, state, nqubits)
       IN /\ call' = [op |-> "apply_gate", gate |-> gate, input |-> state,
                      nq |-> nqubits, err |-> result.err, result |-> result,
                      buffer |-> CallerBuffer(gate, state, nqubits)]
          /\ IF result.err = NoErr
             THEN state' = result /\ ngates' = ngates + 1
             ELSE UNCHANGED <<state, ngates>>
          /\ UNCHANGED <<nqubits, outside>>

\* engine.set_threads(k): the method assigns nothing, so the engine and the
\* executor's state are what they were; an exception ends the execution.
SetThreads(k) ==
    /\ call.err = NoErr
    /\ call' = [op |-> "set_threads", nthreads |-> k, err |-> set_threads(k),
                held |-> [state |-> state, nqubits |-> nqubits, ngates |-> ngates]]
    /\ UNCHANGED <<state, nqubits, ngates, outside>>

Next ==
    \/ \E n \in (0 - MaxQubits)..MaxQubits : ZeroState(n)
    \/ \E k \in 1..MaxThreads : SetThreads(k)
    \/ \E n \in 0..MaxQubits : \E psi \in InputStates(n) : LoadState(n, psi)
    \/ \E gate \in AllGates(nqubits) : ApplyGate(gate)

Spec == Init /\ [][Next]_vars


(* ------------------------------------------- the helpers, called directly *)

\* The helpers read nothing but their arguments (the engine keeps no state
\* between calls), so a behaviour of SpecHelpers is one call, with any
\* arguments, on the constructed engine.
Fresh == call.op = "__init__"

\* A call of control_matrix(gate).
ControlMatrix(gate) ==
    LET result == control_matrix(gate)
    IN /\ Fresh
       /\ call' = [op |-> "control_matrix", gate |-> gate, err |-> result.err,
                   result |-> result]
       /\ UNCHANGED <<state, nqubits, ngates, outside>>

\* A call of _control_order(gate, n).
ControlOrder(gate, n) ==
    LET result == _control_order(gate, n)
    IN /\ Fresh
       /\ call' = [op |-> "_control_order", gate |-> gate, nq |-> n, err |-> NoErr,
                   order |-> result.order, targets |-> result.targets]
       /\ UNCHANGED <<state, nqubits, ngates, outside>>

\* A tensor of n axes of size 2 whose entries all differ.
AxisTensor(n) == Array(Twos(n), [p \in 1..Pow2(n) |-> <<p, 0>>])

\* The axis bookkeeping of apply_gate's controlled branch on a tensor of n
\* axes: transpose by order, compute reverse_order, transpose by it.
RestoreAxes(gate, n) ==
    LET order == _control_order(gate, n).order
        moved == Transpose(AxisTensor(n), order)
        reverse_order == ReverseOrder(order)
        restored == Transpose(moved, reverse_order)
    IN /\ Fresh
       /\ call' = [op |-> "restore_axes", gate |-> gate, nq |-> n,
                   err |-> restored.err, input |-> AxisTensor(n), order |-> order,
                   reverse_order |-> reverse_order, moved |-> moved,
                   result |-> restored]
       /\ UNCHANGED <<state, nqubits, ngates, outside>>

NextHelpers ==
    \/ \E n \in 1..MaxAxes : \E gate \in AllGates(n) : ControlMatrix(gate)
    \/ \E n \in 1..MaxAxes : \E gate \in Gates(n) : ControlOrder(gate, n)
    \/ \E n \in 1..MaxAxes : \E gate \in Gates(n) : RestoreAxes(gate, n)

SpecHelpers == Init /\ [][NextHelpers]_vars


(* ---------------------------------------------------------------- claims *)

\* 2^k, by the definition of the power.
TwoTo(k) == IF k <= 0 THEN 1 ELSE Cardinality(SUBSET (1..k))

\* Bit of qubit q in the n-bit index x: qubit 0 is the most significant bit.
BitOf(x, q, n) == (x \div TwoTo(n - 1 - q)) % 2

RECURSIVE SumInt(_, _)
\* The sum of f[i] over the indices i in S.
SumInt(f, S) ==
    IF S = {} THEN 0
    ELSE LET i == CHOOSE j \in S : TRUE IN f[i] + SumInt(f, S \ {i})

\* The k-bit number read from the bits of x at the listed qubits, the first
\* listed qubit most significant.
Restricted(x, qs, n) ==
    SumInt([i \in 1..Len(qs) |-> BitOf(x, qs[i], n) * TwoTo(Len(qs) - i)],
           1..Len(qs))

\* x with the bits at the listed qubits replaced by the bits of y.
Replaced(x, qs, y, n) ==
    x + SumInt([i \in 1..Len(qs) |->
                   (BitOf(y, i - 1, Len(qs)) - BitOf(x, qs[i], n))
                       * TwoTo(n - 1 - qs[i])],
               1..Len(qs))

\* Entry (r, c) of a matrix with 2^k rows.
MatrixEntry(m, r, c) == m.data[r * m.shape[2] + c + 1]

\* The amplitude at index x of U applied to the listed qubits of psi.
Applied(U, qs, psi, n, x) ==
    CSum([y \in 1..TwoTo(Len(qs)) |->
             CMul(MatrixEntry(U, Restricted(x, qs, n), y - 1),
                  psi.data[Replaced(x, qs, y - 1, n) + 1])])

IsApply == call.op = "apply_gate"

\* The matrix has 2^k rows and 2^k columns for the k targets of the gate.
WellFormed(gate) ==
    gate.matrix.shape = <<TwoTo(Len(gate.target_qubits)), TwoTo(Len(gate.target_qubits))>>

Uncontrolled ==
    IsApply /\ WellFormed(call.gate) /\ call.gate.control_qubits = <<>>

Controlled ==
    IsApply /\ WellFormed(call.gate) /\ call.gate.control_qubits # <<>>

\* C4: for a gate with exactly one control and a (2,2) matrix U,
\* control_matrix returns the 4x4 matrix with the identity as top-left block,
\* U as bottom-right block and zero off-diagonal blocks.
C4_ControlMatrixBlocks ==
    (/\ call.op = "control_matrix"
     /\ Len(call.gate.control_qubits) = 1
     /\ call.gate.matrix.shape = <<2, 2>>)
    => /\ call.err = NoErr
       /\ call.result.shape = <<4, 4>>
       /\ Len(call.result.data) = 16
       /\ \A r, c \in 0..3 :
              MatrixEntry(call.result, r, c) =
                  IF r < 2 /\ c < 2 THEN (IF r = c THEN COne ELSE CZero)
                  ELSE IF r >= 2 /\ c >= 2
                  THEN MatrixEntry(call.gate.matrix, r - 2, c - 2)
                  ELSE CZero

\* A single-control gate with a matrix of four different entries was given.
C4_Witness ==
    /\ call.op = "control_matrix"
    /\ Len(call.gate.control_qubits) = 1
    /\ call.gate.matrix = GenMatrix(1)
    /\ call.err = NoErr

C8_OrderLayout ==
    call.op = "_control_order"
    => LET C == call.gate.control_qubits
           others == Qubits(call.nq) \ Range(C)
       IN /\ Len(call.order) = call.nq
          /\ SubSeq(call.order, 1, Len(C)) = C
          /\ \A i \in (Len(C) + 1)..call.nq : call.order[i] \in others
          /\ \A i, j \in (Len(C) + 1)..call.nq :
                 i < j => call.order[i] < call.order[j]
          /\ C = <<>> =>
                 /\ call.order = [i \in 1..call.nq |-> i - 1]
                 /\ call.targets = call.gate.target_qubits

\* Controls with a free axis between them and one after them were ordered.
C8_Witness ==
    /\ call.op = "_control_order"
    /\ call.nq = 4
    /\ call.gate.control_qubits = <<0, 2>>
    /\ call.order = <<0, 2, 1, 3>>

\* C9: every returned target is the gate's target minus the number of
\* controls below it, its position among the axes that are not controls.
C9_TargetsShifted ==
    call.op = "_control_order"
    => LET C == call.gate.control_qubits
           T == call.gate.target_qubits
           others == Qubits(call.nq) \ Range(C)
       IN /\ Len(call.targets) = Len(T)
          /\ \A i \in 1..Len(T) :
                 /\ call.targets[i] =
                        T[i] - Cardinality({c \in Range(C) : c < T[i]})
                 /\ call.targets[i] =
                        Cardinality({a \in others : a < T[i]})

\* A target above two controls was shifted by two.
C9_Witness ==
    /\ call.op = "_control_order"
    /\ Len(call.gate.control_qubits) = 2
    /\ \E i \in 1..Len(call.targets) :
           call.targets[i] = call.gate.target_qubits[i] - 2


\* C1: an uncontrolled gate with targets T (in any listed order) and matrix
\* U returns the state whose amplitude at every index x is the sum over y of
\* U[x restricted to T, y] times the input amplitude at x with its T bits
\* replaced by y, the i-th leg of U paired with the i-th listed target and
\* qubit 0 the most significant bit; X on qubit 0 of [1,0] gives [0,1].
C1_UncontrolledContraction ==
    Uncontrolled
    => /\ call.err = NoErr
       /\ call.result.shape = <<TwoTo(call.nq)>>
       /\ Len(call.result.data) = TwoTo(call.nq)
       /\ \A x \in 0..(TwoTo(call.nq) - 1) :
              call.result.data[x + 1] =
                  Applied(call.gate.matrix, call.gate.target_qubits,
                          call.input, call.nq, x)
       /\ (/\ call.nq = 1
           /\ call.gate.matrix = PauliX
           /\ call.input.data = <<COne, CZero>>)
          => call.result.data = <<CZero, COne>>

\* A two-target gate listed as <<2, 0>> with a matrix of sixteen different
\* entries was applied to a three-qubit state of eight different amplitudes.
C1_Witness ==
    /\ Uncontrolled
    /\ call.nq = 3
    /\ call.gate.target_qubits = <<2, 0>>
    /\ call.gate.matrix = GenMatrix(2)
    /\ call.input = GenState(3)
    /\ call.err = NoErr
    /\ state = call.result

\* C2: a gate with controls returns a state in which every amplitude whose
\* index has a control bit 0 is the input amplitude at that index; CNOT
\* (control 0, target 1) on [1,0,0,0] returns [1,0,0,0].
C2_InactiveControlsUnchanged ==
    Controlled
    => /\ call.err = NoErr
       /\ Len(call.result.data) = TwoTo(call.nq)
       /\ \A x \in 0..(TwoTo(call.nq) - 1) :
              (\E c \in Range(call.gate.control_qubits) : BitOf(x, c, call.nq) = 0)
              => call.result.data[x + 1] = call.input.data[x + 1]

\* C3: a gate with any number of controls succeeds and, on the amplitudes
\* whose control bits are all 1, the result is U applied to the targets;
\* CNOT (control 0, target 1) on [0,0,0,1] returns [0,0,1,0].
C3_ActiveControlsApplied ==
    Controlled
    => /\ call.err = NoErr
       /\ Len(call.result.data) = TwoTo(call.nq)
       /\ \A x \in 0..(TwoTo(call.nq) - 1) :
              (\A c \in Range(call.gate.control_qubits) : BitOf(x, c, call.nq) = 1)
              => call.result.data[x + 1] =
                     Applied(call.gate.matrix, call.gate.target_qubits,
                             call.input, call.nq, x)

\* The product of a matrix of 2^n columns with a state vector.
MatVec(m, psi) ==
    [r \in 1..m.shape[1] |->
        CSum([c \in 1..m.shape[2] |->
                 CMul(MatrixEntry(m, r - 1, c - 1), psi.data[c])])]

\* C5: on two qubits, for control 0, target 1 and a (2,2) matrix, the
\* product of control_matrix(gate) with a basis state is the vector that
\* apply_gate returns for the controlled gate on that basis state.
C5_ControlMatrixAgreesWithApply ==
    (/\ Controlled
     /\ call.nq = 2
     /\ call.gate.control_qubits = <<0>>
     /\ call.gate.target_qubits = <<1>>
     /\ call.gate.matrix.shape = <<2, 2>>
     /\ \E x \in 0..3 : call.input = BasisState(2, x))
    => /\ call.err = NoErr
       /\ call.result.data = MatVec(control_matrix(call.gate), call.input)

\* C6: for n >= 0, zero_state(n) returns a flat vector of 2^n amplitudes,
\* 1 at index 0 and 0 everywhere else.
C6_ZeroState ==
    (call.op = "zero_state" /\ call.nq >= 0)
    => /\ call.err = NoErr
       /\ call.result.shape = <<TwoTo(call.nq)>>
       /\ Len(call.result.data) = TwoTo(call.nq)
       /\ call.result.data[1] = COne
       /\ \A i \in 2..TwoTo(call.nq) : call.result.data[i] = CZero
       /\ state = call.result

\* zero_state made the state of two qubits.
C6_Witness ==
    /\ call.op = "zero_state"
    /\ call.nq = 2
    /\ state.data = <<COne, CZero, CZero, CZero>>

\* C10: the 2x2 identity applied as an uncontrolled gate to one qubit
\* returns a state equal to the input, amplitude for amplitude.
C10_IdentityGate ==
    (Uncontrolled /\ call.gate.matrix = Eye2)
    => /\ call.err = NoErr
       /\ call.result.shape = call.input.shape
       /\ call.result.data = call.input.data

\* The identity was applied to the middle qubit of a three-qubit state of
\* eight different amplitudes.
C10_Witness ==
    /\ Uncontrolled
    /\ call.gate.matrix = Eye2
    /\ call.gate.target_qubits = <<1>>
    /\ call.input = GenState(3)
    /\ state = call.input


\* The complex conjugate.
CConj(x) == <<x[1], 0 - x[2]>>

\* The sum of the squared magnitudes of the amplitudes of a state.
NormSquared(psi) ==
    SumInt([i \in 1..Len(psi.data) |->
               psi.data[i][1] * psi.data[i][1] + psi.data[i][2] * psi.data[i][2]],
           1..Len(psi.data))

\* The conjugate transpose of a square matrix.
Dagger(m) ==
    Array(m.shape,
          [p \in 1..(m.shape[1] * m.shape[2]) |->
              CConj(MatrixEntry(m, (p - 1) % m.shape[2], (p - 1) \div m.shape[2]))])

\* The rows of the matrix are orthonormal: m times its conjugate transpose
\* is the identity.
IsUnitary(m) ==
    /\ m.shape[1] = m.shape[2]
    /\ \A r, c \in 0..(m.shape[1] - 1) :
           CSum([k \in 1..m.shape[2] |->
                    CMul(MatrixEntry(m, r, k - 1), CConj(MatrixEntry(m, c, k - 1)))])
               = IF r = c THEN COne ELSE CZero

\* The gate on the same qubits with the inverse of a unitary matrix.
InverseGate(gate) == [gate EXCEPT !.matrix = Dagger(gate.matrix)]

\* C11: for a unitary matrix, controlled or uncontrolled, and any state,
\* the sum of squared amplitude magnitudes of the result of apply_gate is
\* that of the input.
C11_NormPreserved ==
    (IsApply /\ WellFormed(call.gate) /\ IsUnitary(call.gate.matrix))
    => /\ call.err = NoErr
       /\ NormSquared(call.result) = NormSquared(call.input)

\* C12: for a unitary U, any targets and controls and any state, applying
\* the gate with U and then the gate with the inverse of U on the same
\* qubits returns the original state.
C12_InverseRoundTrip ==
    (IsApply /\ WellFormed(call.gate) /\ IsUnitary(call.gate.matrix))
    => /\ call.err = NoErr
       /\ LET back == apply_gate(InverseGate(call.gate), call.result, call.nq)
          IN back.err = NoErr /\ Entries(back) = Entries(call.input)


\* C13: control_matrix raises NotImplementedError and returns no matrix for
\* every gate with more than one control qubit.
C13_ControlMatrixUnsupported ==
    (call.op = "control_matrix" /\ Len(call.gate.control_qubits) > 1)
    => /\ call.err = "NotImplementedError"
       /\ call.result.shape = <<>>
       /\ call.result.data = <<>>

\* control_matrix was called with two controls and a (2,2) matrix.
C13_Witness ==
    /\ call.op = "control_matrix"
    /\ Len(call.gate.control_qubits) = 2
    /\ call.gate.matrix = PauliX
    /\ call.err = "NotImplementedError"

\* C14: control_matrix raises ValueError and returns no matrix for every
\* gate with at most one control whose matrix shape is not (2,2).
C14_ControlMatrixShape ==
    (/\ call.op = "control_matrix"
     /\ Len(call.gate.control_qubits) <= 1
     /\ call.gate.matrix.shape # <<2, 2>>)
    => /\ call.err = "ValueError"
       /\ call.result.shape = <<>>
       /\ call.result.data = <<>>

\* control_matrix was called with one control and a (4,4) matrix.
C14_Witness ==
    /\ call.op = "control_matrix"
    /\ Len(call.gate.control_qubits) = 1
    /\ call.gate.matrix.shape = <<4, 4>>
    /\ call.err = "ValueError"


\* C15: set_threads(k) raises ValueError for every k > 1; for k = 1 it
\* returns without error; in both cases the state held is unchanged.
C15_SetThreads ==
    call.op = "set_threads"
    => /\ call.nthreads > 1 => call.err = "ValueError"
       /\ call.nthreads = 1 => call.err = NoErr
       /\ call.held = [state |-> state, nqubits |-> nqubits, ngates |-> ngates]

\* set_threads(2) was refused while a state of two qubits was held.
C15_Witness ==
    /\ call.op = "set_threads"
    /\ call.nthreads = 2
    /\ call.err = "ValueError"
    /\ nqubits = 2


DeclaredQubits(gate) ==
    IF is_controlled_by(gate) THEN Len(gate.target_qubits) ELSE Len(qubits(gate))

\* C17: apply_gate raises, and returns no state, whenever the gate's matrix
\* does not have 2^k * 2^k entries for its k declared qubits.
C17_MatrixSizeMismatch ==
    (IsApply /\ Len(call.gate.matrix.data)
                    # TwoTo(DeclaredQubits(call.gate)) * TwoTo(DeclaredQubits(call.gate)))
    => /\ call.err # NoErr
       /\ call.result.data = <<>>
       /\ state = call.input

\* An uncontrolled gate with a (2,2) matrix declared on two targets was
\* refused.
C17_Witness ==
    /\ IsApply
    /\ call.gate.control_qubits = <<>>
    /\ Len(call.gate.target_qubits) = 2
    /\ call.gate.matrix = PauliX
    /\ call.err = "ValueError"

\* C18: every apply_gate call that returns, after any number of earlier
\* calls, returns a flat vector of exactly 2^n amplitudes, which is the
\* state then held.
C18_FlatResult ==
    (IsApply /\ call.err = NoErr)
    => /\ call.result.shape = <<TwoTo(call.nq)>>
       /\ Len(call.result.data) = TwoTo(call.nq)
       /\ state = call.result
       /\ Len(call.input.data) = TwoTo(call.nq)

\* The second gate of a sequence returned on two qubits.
C18_Witness ==
    /\ IsApply
    /\ call.err = NoErr
    /\ ngates = 2
    /\ call.nq = 2
    /\ call.result.shape = <<4>>

\* C20: zero_state(n) raises, and returns no vector, for every n < 0.
C20_ZeroStateNegative ==
    (call.op = "zero_state" /\ call.nq < 0)
    => /\ call.err # NoErr
       /\ call.result.data = <<>>

\* zero_state(-2) was refused.
C20_Witness ==
    /\ call.op = "zero_state"
    /\ call.nq = 0 - 2
    /\ call.err = "TypeError"


(* ------------------------------------------------- qibo/derivative.py *)

\* The most parametrized gates a circuit is given.
MaxParams == 2

\* The largest angle a parameter is set to, in units of pi/4.
MaxAngle == 1

\* Angles are integers in units of pi/4. A parametrized gate is known by
\* twice its generator eigenvalue r, so the shift s = pi / (4 r) of line 92
\* is 2 / (2 r) units.
Shift(gate) == 2 \div gate.twice_eigenvalue

\* Python's list[i]: a negative i counts from the end.
PyIndex(i, len) == IF i < 0 THEN i + len ELSE i

\* list[i] does not raise IndexError.
InRange(i, len) == 0 - len <= i /\ i < len

\* parameter_shift without line 115: the circuit keeps the backward shift.
parameter_shift_unrestored(circ, hamiltonian, parameter_index) ==
    LET len == Len(circ.parameters)
        unrun == [err |-> NoErr, circuit |-> circ, runs |-> <<>>, result |-> <<>>]
    IN IF parameter_index > len THEN [unrun EXCEPT !.err = "ValueError"]
       ELSE IF ~hamiltonian.is_hamiltonian THEN [unrun EXCEPT !.err = "TypeError"]
       ELSE IF ~InRange(parameter_index, len) THEN [unrun EXCEPT !.err = "IndexError"]
       ELSE LET pos == PyIndex(parameter_index, len) + 1
                s == Shift(circ.gates[pos])
                original == circ.parameters
                shifted1 == [original EXCEPT ![pos] = @ + s]
                shifted2 == [shifted1 EXCEPT ![pos] = @ - 2 * s]
            IN [err |-> NoErr,
                circuit |-> [circ EXCEPT !.parameters = shifted2],
                runs |-> <<shifted1, shifted2>>,
                result |-> <<circ.gates[pos].twice_eigenvalue, shifted1, shifted2>>]

\* parameter_shift(circuit, hamiltonian, parameter_index): the outcome, the
\* circuit after the call, the parameters of every execution in order, and
\* the returned r * (forward - backward) as the eigenvalue and the parameters
\* of the two executions it is computed from.
parameter_shift(circ, hamiltonian, parameter_index) ==
    LET len == Len(circ.parameters)
        unrun == [err |-> NoErr, circuit |-> circ, runs |-> <<>>, result |-> <<>>]
    IN IF parameter_index > len THEN [unrun EXCEPT !.err = "ValueError"]
       ELSE IF ~hamiltonian.is_hamiltonian THEN [unrun EXCEPT !.err = "TypeError"]
       ELSE IF ~InRange(parameter_index, len) THEN [unrun EXCEPT !.err = "IndexError"]
       ELSE LET pos == PyIndex(parameter_index, len) + 1
                s == Shift(circ.gates[pos])
                original == circ.parameters
                shifted1 == [original EXCEPT ![pos] = @ + s]
                shifted2 == [shifted1 EXCEPT ![pos] = @ - 2 * s]
            IN [err |-> NoErr,
                circuit |-> [circ EXCEPT !.parameters = original],
                runs |-> <<shifted1, shifted2>>,
                result |-> <<circ.gates[pos].twice_eigenvalue, shifted1, shifted2>>]

\* circuit.add(gate) of a gate with one parameter.
AddGate(twice_eigenvalue, theta) ==
    /\ Len(circuit.parameters) < MaxParams
    /\ circuit' = [parameters |-> Append(circuit.parameters, theta),
                   gates |-> Append(circuit.gates,
                                    [twice_eigenvalue |-> twice_eigenvalue])]
    /\ call' = [op |-> "add", err |-> NoErr]
    /\ UNCHANGED <<state, nqubits, ngates, dbf>>

\* A call of parameter_shift on the circuit.
ParameterShift(hamiltonian, parameter_index) ==
    LET result == parameter_shift(circuit, hamiltonian, parameter_index)
    IN /\ circuit' = result.circuit
       /\ call' = [op |-> "parameter_shift", before |-> circuit,
                   hamiltonian |-> hamiltonian, parameter_index |-> parameter_index,
                   err |-> result.err, runs |-> result.runs,
                   result |-> result.result]
       /\ UNCHANGED <<state, nqubits, ngates, dbf>>

NextDerivative ==
    \/ \E r2 \in {1, 2} : \E theta \in 0..MaxAngle : AddGate(r2, theta)
    \/ \E ok \in BOOLEAN :
       \E index \in (0 - MaxParams - 1)..(MaxParams + 1) :
           ParameterShift([is_hamiltonian |-> ok], index)

SpecDerivative == Init /\ [][NextDerivative]_vars

IsShift == call.op = "parameter_shift"

\* C21: when parameter_shift returns, the circuit's parameters are what they
\* were before the call, and the circuit was executed exactly twice: first
\* with the parameter at parameter_index raised by s, then with it lowered
\* by s, every other parameter as it was.
C21_ShiftFrame ==
    (IsShift /\ call.err = NoErr)
    => LET original == call.before.parameters
           pos == PyIndex(call.parameter_index, Len(original)) + 1
           s == Shift(call.before.gates[pos])
       IN /\ circuit = call.before
          /\ Len(call.runs) = 2
          /\ call.runs[1] = [original EXCEPT ![pos] = @ + s]
          /\ call.runs[2] = [original EXCEPT ![pos] = @ - s]

\* parameter_shift returned for the second of two parameters.
C21_Witness ==
    /\ IsShift
    /\ call.err = NoErr
    /\ call.parameter_index = 1
    /\ Len(circuit.parameters) = 2
    /\ Len(call.runs) = 2

\* parameter_shift raises ValueError for every parameter_index above the
\* number of parameters, whatever the hamiltonian, with the circuit unchanged
\* and never executed; no call that raises changes or executes the circuit.
ShiftGuard ==
    /\ (IsShift /\ call.parameter_index > Len(call.before.parameters))
       => call.err = "ValueError"
    /\ (IsShift /\ call.err # NoErr)
       => (circuit = call.before /\ call.runs = <<>>)

\* C22: parameter_shift raises ValueError for every parameter_index that is
\* at least the number of parameters (given a Hamiltonian object), with the
\* circuit unchanged and never executed.
C22_IndexOutOfBounds ==
    (/\ IsShift
     /\ call.hamiltonian.is_hamiltonian
     /\ call.parameter_index >= Len(call.before.parameters))
    => /\ call.err = "ValueError"
       /\ circuit = call.before
       /\ call.runs = <<>>


(* ------------------------------------------ qibo/models/double_bracket.py *)

\* The most flow steps applied to one Hamiltonian object.
MaxSteps == 2

\* The largest look_ahead passed to loss.
MaxLookAhead == 2

\* Python's None.
None == "None"

\* FlowGeneratorType
FlowGeneratorType == {"canonical", "single_commutator", "group_commutator"}

\* A matrix is known by the matrix it started as and the rotations
\* operator @ matrix @ operator_dagger applied to it since, each by its
\* generator, step and d.
Matrix(base) == [base |-> base, steps |-> <<>>]

\* operator @ h.matrix @ operator_dagger of line 87.
Rotated(matrix, mode, step, d) ==
    [matrix EXCEPT !.steps = Append(@, [mode |-> mode, step |-> step, d |-> d])]

\* The Hamiltonian object self.h refers to.
H(flow) == flow.heap[flow.h]

\* The Hamiltonian object self.h0 refers to.
H0(flow) == flow.heap[flow.h0]

\* __init__ keeping a second reference to the Hamiltonian, not a copy.
__init___aliased(hamiltonian, mode) ==
    [constructed |-> TRUE,
     heap |-> [given |-> hamiltonian, h0 |-> hamiltonian, copy |-> hamiltonian],
     h |-> "given",
     h0 |-> "given",
     mode |-> mode,
     initial |-> hamiltonian]

\* DoubleBracketFlow.__init__(hamiltonian, mode). The objects: "given" is the
\* caller's Hamiltonian, "h0" its deep copy, "copy" the deep copy loss last
\* made (unreferenced until then); initial remembers the matrix given.
__init__(hamiltonian, mode) ==
    [constructed |-> TRUE,
     heap |-> [given |-> hamiltonian, h0 |-> hamiltonian, copy |-> hamiltonian],
     h |-> "given",
     h0 |-> "h0",
     mode |-> mode,
     initial |-> hamiltonian]

\* __call__ keeping the mode it was given as the flow's mode.
__call___sticky(flow, step, mode, d) ==
    LET used == IF mode = None THEN flow.mode ELSE mode
    IN IF used # "canonical" /\ d = None
       THEN [err |-> "ValueError", flow |-> [flow EXCEPT !.mode = used]]
       ELSE [err |-> NoErr,
             flow |-> [flow EXCEPT !.mode = used,
                                   !.heap[flow.h] = Rotated(@, used, step, d)]]

\* DoubleBracketFlow.__call__(step, mode, d)
__call__(flow, step, mode, d) ==
    LET used == IF mode = None THEN flow.mode ELSE mode
    IN IF used # "canonical" /\ d = None
       THEN [err |-> "ValueError", flow |-> flow]
       ELSE [err |-> NoErr,
             flow |-> [flow EXCEPT !.heap[flow.h] = Rotated(@, used, step, d)]]

\* for _ in range(look_ahead): self.__call__(mode=self.mode, step=step)
RECURSIVE LookAhead(_, _, _)
LookAhead(flow, step, remaining) ==
    IF remaining <= 0 THEN [err |-> NoErr, flow |-> flow]
    ELSE LET stepped == __call__(flow, step, flow.mode, None)
         IN IF stepped.err # NoErr THEN stepped
            ELSE LookAhead(stepped.flow, step, remaining - 1)

\* self.off_diagonal_norm: a number computed from self.h.matrix.
off_diagonal_norm(flow) == [off_diagonal_norm_of |-> H(flow)]

\* loss without line 173: self.h stays where the steps left it.
loss_unrestored(flow, step, look_ahead) ==
    LET h_copy == H(flow)
        ahead == LookAhead(flow, step, look_ahead)
    IN IF ahead.err # NoErr THEN [err |-> ahead.err, flow |-> ahead.flow, loss |-> None]
       ELSE [err |-> NoErr, flow |-> ahead.flow, loss |-> off_diagonal_norm(ahead.flow)]

\* DoubleBracketFlow.loss(step, look_ahead)
loss(flow, step, look_ahead) ==
    LET h_copy == H(flow)
        ahead == LookAhead(flow, step, look_ahead)
    IN IF ahead.err # NoErr THEN [err |-> ahead.err, flow |-> ahead.flow, loss |-> None]
       ELSE [err |-> NoErr,
             flow |-> [ahead.flow EXCEPT !.heap.copy = h_copy, !.h = "copy"],
             loss |-> off_diagonal_norm(ahead.flow)]

\* dbf = DoubleBracketFlow(hamiltonian, mode)
Construct(base, mode) ==
    /\ ~dbf.constructed
    /\ dbf' = __init__(Matrix(base), mode)
    /\ call' = [op |-> "__init__", err |-> NoErr]
    /\ UNCHANGED <<state, nqubits, ngates, circuit>>

\* dbf(step, mode, d)
Call(step, mode, d) ==
    /\ dbf.constructed
    /\ Len(H(dbf).steps) < MaxSteps
    /\ LET result == __call__(dbf, step, mode, d)
       IN /\ dbf' = result.flow
          /\ call' = [op |-> "__call__", before |-> dbf, step |-> step,
                      mode |-> mode, d |-> d, err |-> result.err]
    /\ UNCHANGED <<state, nqubits, ngates, circuit>>

\* dbf.loss(step, look_ahead)
Loss(step, look_ahead) ==
    /\ dbf.constructed
    /\ Len(H(dbf).steps) + look_ahead <= MaxSteps
    /\ LET result == loss(dbf, step, look_ahead)
       IN /\ dbf' = result.flow
          /\ call' = [op |-> "loss", before |-> dbf, step |-> step,
                      look_ahead |-> look_ahead, err |-> result.err,
                      loss |-> result.loss]
    /\ UNCHANGED <<state, nqubits, ngates, circuit>>

NextFlow ==
    \/ \E base \in {"A", "B"} : \E mode \in FlowGeneratorType : Construct(base, mode)
    \/ \E step \in {1, 2} : \E mode \in FlowGeneratorType \cup {None} :
       \E d \in {None, "D"} : Call(step, mode, d)
    \/ \E step \in {1, 2} : \E look_ahead \in 0..MaxLookAhead : Loss(step, look_ahead)

SpecFlow == Init /\ [][NextFlow]_vars

\* C23: when loss(step, look_ahead) returns, self.h has the matrix it had
\* before the call, for every look_ahead >= 0, and the loss was computed
\* from the matrix look_ahead steps further.
C23_LossRestoresH ==
    (call.op = "loss" /\ call.err = NoErr)
    => /\ H(dbf) = H(call.before)
       /\ Len(call.loss.off_diagonal_norm_of.steps)
              = Len(H(call.before).steps) + call.look_ahead

\* loss returned after looking two steps ahead.
C23_Witness ==
    /\ call.op = "loss"
    /\ call.err = NoErr
    /\ call.look_ahead = 2
    /\ Len(call.loss.off_diagonal_norm_of.steps) = 2
    /\ H(dbf).steps = <<>>

\* The mode a call uses: its argument, or the flow's mode for None.
UsedMode == IF call.mode = None THEN call.before.mode ELSE call.mode

\* C24: __call__ in single_commutator or group_commutator mode with d = None
\* raises ValueError and leaves self.h unchanged; the mode argument is used
\* for that call only, and self.mode is never changed by __call__.
C24_CallModeAndError ==
    call.op = "__call__"
    => /\ (UsedMode # "canonical" /\ call.d = None)
          => (call.err = "ValueError" /\ dbf = call.before)
       /\ dbf.mode = call.before.mode
       /\ call.err = NoErr
          => H(dbf) = Rotated(H(call.before), UsedMode, call.step, call.d)

\* A canonical flow was called in group_commutator mode without d.
C24_Witness ==
    /\ call.op = "__call__"
    /\ call.mode = "group_commutator"
    /\ call.d = None
    /\ call.err = "ValueError"
    /\ dbf.mode = "canonical"

\* C30: after any sequence of __call__ and loss, h0 has the matrix of the
\* Hamiltonian given at construction.
C30_H0Unchanged == dbf.constructed => H0(dbf) = dbf.initial

\* self.h was rotated twice, once by loss's look-ahead on the caller's object
\* and once by __call__ on the copy, and h0 is as constructed.
C30_Witness ==
    /\ dbf.constructed
    /\ dbf.h = "copy"
    /\ Len(dbf.heap.given.steps) > 0
    /\ Len(dbf.heap.copy.steps) > 0
    /\ H0(dbf) = dbf.initial


(* ------------------------------------------------- qibo/ui/mpldrawer.py *)

\* The longest list of gate tuples clustered.
MaxItems == 3

\* "MEASURE" in item[0], for the labels used here (none contains another).
IsMeasure(item) == item[1] = "MEASURE"

\* The body of the loop of lines 441-461 from index i (0-based) on, then
\* lines 463-467, without the last flush of temp_mgates.
RECURSIVE ClusterLoopUnflushed(_, _, _, _, _)
ClusterLoopUnflushed(gates_items, i, cluster_gates, temp_gates, temp_mgates) ==
    IF i >= Len(gates_items)
    THEN cluster_gates \o (IF Len(temp_gates) > 0 THEN <<temp_gates>> ELSE <<>>)
    ELSE LET item == gates_items[i + 1]
         IN IF Len(item) = 2 /\ i > 0 /\ ~IsMeasure(item)
            THEN ClusterLoopUnflushed(gates_items, i + 1, cluster_gates,
                                      Append(temp_gates, item), temp_mgates)
            ELSE IF IsMeasure(item)
            THEN ClusterLoopUnflushed(gates_items, i + 1, cluster_gates, temp_gates,
                                      Append(temp_mgates, item))
            ELSE ClusterLoopUnflushed(gates_items, i + 1,
                     cluster_gates
                         \o (IF Len(temp_gates) # 0 THEN <<temp_gates>> ELSE <<>>)
                         \o (IF Len(temp_mgates) # 0 THEN <<temp_mgates>> ELSE <<>>)
                         \o (IF ~IsMeasure(item) THEN <<(<<item>>)>> ELSE <<>>),
                     <<>>, <<>>)

\* The body of the loop of lines 441-461 from index i (0-based) on, then
\* the flushes of lines 463-467. The assignment gates = [] of line 446 binds
\* a name nothing reads.
RECURSIVE ClusterLoop(_, _, _, _, _)
ClusterLoop(gates_items, i, cluster_gates, temp_gates, temp_mgates) ==
    IF i >= Len(gates_items)
    THEN cluster_gates
             \o (IF Len(temp_gates) > 0 THEN <<temp_gates>> ELSE <<>>)
             \o (IF Len(temp_mgates) > 0 THEN <<temp_mgates>> ELSE <<>>)
    ELSE LET item == gates_items[i + 1]
         IN IF Len(item) = 2 /\ i > 0 /\ ~IsMeasure(item)
            THEN ClusterLoop(gates_items, i + 1, cluster_gates,
                             Append(temp_gates, item), temp_mgates)
            ELSE IF IsMeasure(item)
            THEN ClusterLoop(gates_items, i + 1, cluster_gates, temp_gates,
                             Append(temp_mgates, item))
            ELSE ClusterLoop(gates_items, i + 1,
                     cluster_gates
                         \o (IF Len(temp_gates) # 0 THEN <<temp_gates>> ELSE <<>>)
                         \o (IF Len(temp_mgates) # 0 THEN <<temp_mgates>> ELSE <<>>)
                         \o (IF ~IsMeasure(item) THEN <<(<<item>>)>> ELSE <<>>),
                     <<>>, <<>>)

\* _make_cluster_gates(gates_items)
_make_cluster_gates(gates_items) == ClusterLoop(gates_items, 0, <<>>, <<>>, <<>>)

\* The qubit labels plot gives a circuit of two qubits.
Labels == {"q_0", "q_1"}

\* The tuples (label, targets..., controls...) plot builds (lines 532-562):
\* one-qubit gates, measurements of one or both qubits, two-qubit gates.
GateItems ==
    {<<name, q>> : name \in {"H", "X", "MEASURE"}, q \in Labels}
    \cup {<<"MEASURE", "q_0", "q_1">>, <<"CNOT", "q_0", "q_1">>, <<"CNOT", "q_1", "q_0">>}

\* Lists of at most n items.
ItemLists(n) == UNION {[1..k -> GateItems] : k \in 0..n}

\* gates_cluster = _make_cluster_gates(gates_plot)
MakeClusterGates(gates_items) ==
    /\ call.op = "__init__"
    /\ call' = [op |-> "_make_cluster_gates", gates_items |-> gates_items,
                err |-> NoErr, result |-> _make_cluster_gates(gates_items)]
    /\ UNCHANGED <<state, nqubits, ngates, circuit, dbf>>

NextDrawer == \E gates_items \in ItemLists(MaxItems) : MakeClusterGates(gates_items)

SpecDrawer == Init /\ [][NextDrawer]_vars

IsCluster == call.op = "_make_cluster_gates"

\* The items of all clusters, cluster by cluster.
RECURSIVE Flatten(_)
Flatten(clusters) ==
    IF clusters = <<>> THEN <<>> ELSE Head(clusters) \o Flatten(Tail(clusters))

\* How many times item occurs in a list.
Count(item, list) == Cardinality({i \in 1..Len(list) : list[i] = item})

\* C25: the clusters returned are non-empty and together hold every input
\* gate exactly as many times as the input does; an empty input gives an
\* empty list.
C25_ClustersPartition ==
    IsCluster
    => LET flat == Flatten(call.result)
       IN /\ \A c \in 1..Len(call.result) : Len(call.result[c]) > 0
          /\ Len(flat) = Len(call.gates_items)
          /\ \A item \in GateItems : Count(item, flat) = Count(item, call.gates_items)
          /\ call.gates_items = <<>> => call.result = <<>>

\* A list with a repeated gate and a measurement was clustered.
C25_Witness ==
    /\ IsCluster
    /\ call.gates_items = <<(<<"H", "q_0">>), <<"MEASURE", "q_0">>, <<"H", "q_0">>>>
    /\ Len(call.result) = 3
    /\ Count(<<"H", "q_0">>, Flatten(call.result)) = 2

\* The items of a list that act on qubit label q, in order.
RECURSIVE OnWire(_, _)
OnWire(list, q) ==
    IF list = <<>> THEN <<>>
    ELSE (IF \E k \in 2..Len(Head(list)) : Head(list)[k] = q
          THEN <<Head(list)>> ELSE <<>>) \o OnWire(Tail(list), q)

\* C29: read cluster by cluster, the gates on each qubit label are in their
\* input order, and no cluster holds two gates on the same qubit label.
C29_WireOrder ==
    IsCluster
    => \A q \in Labels :
          /\ OnWire(Flatten(call.result), q) = OnWire(call.gates_items, q)
          /\ \A c \in 1..Len(call.result) : Len(OnWire(call.result[c], q)) <= 1

\* Every list with no measurement and no two one-qubit gates in a row keeps
\* its order and has one gate per cluster.
ClusterOrderWithoutMeasure ==
    (/\ IsCluster
     /\ \A i \in 1..Len(call.gates_items) : ~IsMeasure(call.gates_items[i])
     /\ \A i \in 2..(Len(call.gates_items) - 1) :
            Len(call.gates_items[i]) # 2 \/ Len(call.gates_items[i + 1]) # 2)
    => /\ Flatten(call.result) = call.gates_items
       /\ \A c \in 1..Len(call.result) : Len(call.result[c]) = 1


(* ------------------------------------- qibo/tomography/gate_set_tomography.py *)

\* The longest gate_set given to GST.
MaxGateSet == 2

\* The largest nqubits given to _get_observable.
MaxTomographyQubits == 3

\* The largest index j given to _get_observable.
MaxIndex == 4

RECURSIVE Pow4(_)
Pow4(k) == IF k <= 0 THEN 1 ELSE 4 * Pow4(k - 1)

\* _observables(nqubits)[j][q] is not symbols.I: itertools.product puts the
\* first factor slowest, so element j has the base-4 digits of j, and digit 0
\* stands for symbols.I.
NotIdentity(j, q, n) == (j \div Pow4(n - 1 - q)) % 4 # 0

\* _get_observable(j, nqubits): the outcome and, for the Hamiltonian
\* returned, the qubits its product of Z symbols acts on. A negative repeat
\* makes itertools.product raise ValueError; an index outside the 4^nqubits
\* tuples raises IndexError.
_get_observable(j, n) ==
    IF j = 0 /\ n >= 3 THEN [err |-> "ValueError", observable |-> {}]
    ELSE IF n < 0 THEN [err |-> "ValueError", observable |-> {}]
    ELSE IF ~InRange(j, Pow4(n)) THEN [err |-> "IndexError", observable |-> {}]
    ELSE [err |-> NoErr,
          observable |-> {q \in 0..(n - 1) : NotIdentity(PyIndex(j, Pow4(n)), q, n)}]

\* The matrix _gate_tomography fills, known by what it was measured for.
\* The check of lines 197-201 refuses every nqubits but 1 and 2, that of
\* lines 206-211 a gate on another number of qubits.
_gate_tomography(n, gate) ==
    IF n \notin {1, 2} THEN [err |-> "ValueError"]
    ELSE IF gate.name # None /\ n # Len(gate.qubits) THEN [err |-> "ValueError"]
    ELSE [err |-> NoErr, kind |-> "jk", nqubits |-> n, gate |-> gate,
          shape |-> <<Pow4(n), Pow4(n)>>]

\* The gate classes given to GST, by the required parameters of their
\* constructors.
GateClasses ==
    {[name |-> "H", args |-> <<"q">>, qubits |-> <<>>],
     [name |-> "CNOT", args |-> <<"q0", "q1">>, qubits |-> <<>>],
     [name |-> "TOFFOLI", args |-> <<"q0", "q1", "q2">>, qubits |-> <<>>],
     [name |-> "RX", args |-> <<"q", "theta">>, qubits |-> <<>>]}

\* None as an element of gate_set, and as the gate of an empty circuit.
NoGate == [name |-> None, args |-> <<>>, qubits |-> <<>>]

\* The body of the loop of lines 272-294 from element i on: nqubits is the
\* local name left by the loop of line 262 or an earlier element, 0 while
\* it is unbound.
RECURSIVE GateSetLoop(_, _, _, _)
GateSetLoop(gate_set, i, n, matrices) ==
    IF i > Len(gate_set) THEN [err |-> NoErr, matrices |-> matrices]
    ELSE LET gate == gate_set[i]
             init_args == {gate.args[k] : k \in 1..Len(gate.args)}
             supported == \/ "q" \in init_args
                          \/ ("q0" \in init_args /\ "q1" \in init_args
                              /\ "q2" \notin init_args)
             n1 == IF gate = NoGate THEN n
                   ELSE IF "q" \in init_args THEN 1
                   ELSE 2
         IN IF gate # NoGate /\ ~supported
            THEN [err |-> "RuntimeError", matrices |-> <<>>]
            ELSE IF gate # NoGate /\ Len(gate.args) # n1
            THEN [err |-> "TypeError", matrices |-> <<>>]
            ELSE IF n1 = 0
            THEN [err |-> "UnboundLocalError", matrices |-> <<>>]
            ELSE LET instance == IF gate = NoGate THEN NoGate
                                 ELSE [name |-> gate.name, args |-> gate.args,
                                       qubits |-> [q \in 1..n1 |-> q - 1]]
                     matrix == _gate_tomography(n1, instance)
                 IN IF matrix.err # NoErr
                    THEN [err |-> matrix.err, matrices |-> <<>>]
                    ELSE GateSetLoop(gate_set, i + 1, n1, Append(matrices, matrix))

\* T_matrix @ inv(empty) @ matrix @ inv(T_matrix) of lines 304-308.
PauliLiouville(matrix, empty_matrices, T) ==
    [err |-> NoErr, kind |-> "PL", matrix |-> matrix,
     empty |-> IF matrix.shape[1] = 4 THEN empty_matrices[1] ELSE empty_matrices[2],
     T |-> T, shape |-> matrix.shape]

\* GST putting the empty-circuit matrices first whenever it measured them.
GST_empty_when_measured(gate_set, include_empty, Pauli_Liouville, T, invertible) ==
    LET measured == include_empty \/ Pauli_Liouville
        empty_matrices ==
            IF measured
            THEN <<_gate_tomography(1, NoGate), _gate_tomography(2, NoGate)>>
            ELSE <<>>
        looped == GateSetLoop(gate_set, 1, IF measured THEN 2 ELSE 0, <<>>)
        matrices == looped.matrices
    IN IF looped.err # NoErr THEN [err |-> looped.err, matrices |-> <<>>]
       ELSE IF Pauli_Liouville /\ T = "singular"
       THEN [err |-> "ValueError", matrices |-> <<>>]
       ELSE IF Pauli_Liouville /\ matrices # <<>> /\ ~invertible
       THEN [err |-> "LinAlgError", matrices |-> <<>>]
       ELSE LET after == IF Pauli_Liouville
                         THEN [k \in 1..Len(matrices) |->
                                  PauliLiouville(matrices[k], empty_matrices, T)]
                         ELSE matrices
            IN [err |-> NoErr,
                matrices |-> IF measured THEN empty_matrices \o after ELSE after]

\* GST(gate_set, include_empty, Pauli_Liouville, T); invertible says whether
\* the empty-circuit matrices the backend measured can be inverted (line 307
\* raises LinAlgError otherwise).
GST(gate_set, include_empty, Pauli_Liouville, T, invertible) ==
    LET measured == include_empty \/ Pauli_Liouville
        empty_matrices ==
            IF measured
            THEN <<_gate_tomography(1, NoGate), _gate_tomography(2, NoGate)>>
            ELSE <<>>
        looped == GateSetLoop(gate_set, 1, IF measured THEN 2 ELSE 0, <<>>)
        matrices == looped.matrices
    IN IF looped.err # NoErr THEN [err |-> looped.err, matrices |-> <<>>]
       ELSE IF Pauli_Liouville /\ T = "singular"
       THEN [err |-> "ValueError", matrices |-> <<>>]
       ELSE IF Pauli_Liouville /\ matrices # <<>> /\ ~invertible
       THEN [err |-> "LinAlgError", matrices |-> <<>>]
       ELSE LET after == IF Pauli_Liouville
                         THEN [k \in 1..Len(matrices) |->
                                  PauliLiouville(matrices[k], empty_matrices, T)]
                         ELSE matrices
            IN [err |-> NoErr,
                matrices |-> IF include_empty THEN empty_matrices \o after ELSE after]

\* A call of _get_observable(j, n). What SymbolicHamiltonian makes of no
\* qubits is not in this repository, so (0, 0) is not called.
GetObservable(j, n) ==
    LET result == _get_observable(j, n)
    IN /\ call.op = "__init__"
       /\ ~(j = 0 /\ n = 0)
       /\ call' = [op |-> "_get_observable", j |-> j, nq |-> n,
                   err |-> result.err, observable |-> result.observable]
       /\ UNCHANGED <<state, nqubits, ngates, circuit, dbf>>

\* A call of GST.
Gst(gate_set, include_empty, Pauli_Liouville, T, invertible) ==
    LET result == GST(gate_set, include_empty, Pauli_Liouville, T, invertible)
    IN /\ call.op = "__init__"
       /\ call' = [op |-> "GST", gate_set |-> gate_set,
                   include_empty |-> include_empty,
                   Pauli_Liouville |-> Pauli_Liouville, T |-> T,
                   invertible |-> invertible, err |-> result.err,
                   result |-> result.matrices]
       /\ UNCHANGED <<state, nqubits, ngates, circuit, dbf>>

\* Gate sets of at most n elements: gate classes and None.
GateSets(n) == UNION {[1..k -> GateClasses \cup {NoGate}] : k \in 0..n}

NextTomography ==
    \/ \E j \in (0 - 1)..MaxIndex : \E n \in (0 - 1)..MaxTomographyQubits :
           GetObservable(j, n)
    \/ \E gate_set \in GateSets(MaxGateSet) :
       \E include_empty \in BOOLEAN : \E Pauli_Liouville \in BOOLEAN :
       \E T \in {None, "invertible", "singular"} : \E invertible \in BOOLEAN :
           Gst(gate_set, include_empty, Pauli_Liouville, T, invertible)

SpecTomography == Init /\ [][NextTomography]_vars

\* C26: _get_observable(j, nqubits) raises ValueError for every nqubits
\* other than 1 or 2, for every index j.
C26_ObservableQubits ==
    (call.op = "_get_observable" /\ call.nq \notin {1, 2})
    => call.err = "ValueError"

\* _get_observable raises ValueError for index 0 of three or more qubits and
\* for a negative number of qubits, and returns for every index of 1 or 2
\* qubits in range.
ObservableGuard ==
    call.op = "_get_observable"
    => /\ (call.j = 0 /\ call.nq >= 3) => call.err = "ValueError"
       /\ call.nq < 0 => call.err = "ValueError"
       /\ (call.nq \in {1, 2} /\ InRange(call.j, Pow4(call.nq))) => call.err = NoErr

\* The gate a returned matrix was measured for.
MeasuredFor(matrix) ==
    IF matrix.kind = "PL" THEN matrix.matrix.gate.name ELSE matrix.gate.name

Least(qs) == CHOOSE x \in Range(qs) : \A y \in Range(qs) : x <= y

\* The well-formed uncontrolled gates on n qubits whose targets are none of
\* those of gate: every matrix on every list of distinct idle qubits.
DisjointGates(gate, n) ==
    LET idle == Qubits(n) \ Range(gate.target_qubits)
        one == {<<a>> : a \in idle}
        two == {<<a, b>> : a, b \in idle} \ {<<a, a>> : a \in idle}
    IN {[target_qubits |-> t, control_qubits |-> <<>>, matrix |-> m] :
           t \in one, m \in {Eye2, PauliX, GenMatrix(1)}}
       \cup {[target_qubits |-> t, control_qubits |-> <<>>, matrix |-> m] :
                 t \in two, m \in {CNOT4, GenMatrix(2)}}

\* C28: for two uncontrolled gates with disjoint targets, apply_gate in
\* either order gives the same final state, from any state of length 2^n.
\* The statement is symmetric in the two gates and both are applied to every
\* state held, so each pair is compared once, at the call of the gate with
\* the lower least target.
C28_DisjointGatesCommute ==
    (Uncontrolled /\ call.err = NoErr)
    => \A other \in DisjointGates(call.gate, call.nq) :
          Least(call.gate.target_qubits) < Least(other.target_qubits)
          => LET first == apply_gate(other, call.input, call.nq)
                 this_other == apply_gate(other, call.result, call.nq)
                 other_this == apply_gate(call.gate, first, call.nq)
             IN /\ this_other.err = NoErr
                /\ other_this.err = NoErr
                /\ Entries(this_other) = Entries(other_this)

\* A gate on qubit 0 was applied to a state of three qubits whose amplitudes
\* all differ, and a two-qubit gate on qubits 2 and 1 changes the result.
C28_Witness ==
    /\ Uncontrolled
    /\ call.err = NoErr
    /\ call.nq = 3
    /\ call.gate.target_qubits = <<0>>
    /\ call.gate.matrix = GenMatrix(1)
    /\ call.input = GenState(3)
    /\ \E other \in DisjointGates(call.gate, call.nq) :
          /\ other.target_qubits = <<2, 1>>
          /\ Least(call.gate.target_qubits) < Least(other.target_qubits)
          /\ Entries(apply_gate(other, call.result, call.nq)) # Entries(call.result)

====
